---- MODULE Spec2Model ----
(***************************************************************************)
(* State-machine model of doc-mindmap/scripts/doc_converter.py: the        *)
(* scan -> deduplicate -> convert -> summarize -> classify -> materialize  *)
(* pipeline of DocConverter, driven by main().                             *)
(*                                                                         *)
(* File names are sequences of tokens ("a", ".pdf", ".md", ".brief"): a    *)
(* token that starts with a dot is a suffix, so that Path.stem,            *)
(* Path.suffix, str.replace and string concatenation are computed and not  *)
(* assumed.  Paths of the scanned tree are strings; NameOf gives a path's  *)
(* file name.                                                              *)
(***************************************************************************)
EXTENDS Integers, Sequences, FiniteSets, TLC

VARIABLES
    files,            \* original files on disk: path -> content id (0: no such file)
    dirs,             \* directories of .summaries that exist ("converted", "briefs")
    converted,        \* .summaries/converted: md file name -> artifact
    briefs,           \* .summaries/briefs: brief file name -> brief
    csv,              \* .summaries/index.csv: <<>> before it is written, else <<rows>>
    schemes,          \* .summaries/schemes: <<scheme, category, link name>> -> link target
    pc,               \* position of the running process ("idle": none is running)
    args,             \* the parsed command line of the running process
    documents,        \* DocConverter.documents
    idx,              \* the loop index of the stage that is running
    report,           \* ConvertReport counters of convert()
    md_files,         \* summarize(): the artifacts globbed at its start
    results,          \* summarize(): results
    brief_files,      \* organize(): the briefs globbed at its start
    classifications,  \* organize(): classifications
    runs,             \* invocations of main() so far
    last,             \* how the latest process ended
    calls,            \* per process: external calls made (converter, generator)
    memo,             \* the collaborators' answers so far (they are deterministic
                      \* until the environment changes)
    pre,              \* what the previous process was and left in .summaries
    envChanges,       \* environment changes so far
    inp,              \* a function applied on its own: its name and arguments
    out               \* and what it returned (NoOutput before it has)

vars == <<files, dirs, converted, briefs, csv, schemes, pc, args, documents, idx,
          report, md_files, results, brief_files, classifications, runs, last,
          calls, memo, pre, envChanges, inp, out>>

fnVars == <<inp, out>>

fsVars == <<dirs, converted, briefs, csv, schemes>>
procVars == <<args, documents, idx, report, md_files, results, brief_files,
              classifications>>

----------------------------------------------------------------------------
(* Bounds *)

MaxRuns == 2
MaxEnvChanges == 1

----------------------------------------------------------------------------
(* The scanned tree *)

Paths == {"A/a.pdf", "A/b.pdf", "A/c.pptx", "A/sub/a.pdf",
          "A/.hidden/h.pdf", "A/build/d.pdf", "A/n.txt"}

NameOf(p) ==
    CASE p = "A/a.pdf" -> <<"a", ".pdf">>
      [] p = "A/b.pdf" -> <<"b", ".pdf">>
      [] p = "A/c.pptx" -> <<"c", ".pptx">>
      [] p = "A/sub/a.pdf" -> <<"a", ".pdf">>
      [] p = "A/.hidden/h.pdf" -> <<"h", ".pdf">>
      [] p = "A/build/d.pdf" -> <<"d", ".pdf">>
      [] p = "A/n.txt" -> <<"n", ".txt">>
      [] p = "A/r.brief.pdf" -> <<"r", ".brief", ".pdf">>
      [] p = "A/R.PDF" -> <<"R", ".PDF">>
      [] p = "A" -> <<"A">>
      [] p = "A/sub" -> <<"sub">>
      [] p = "A/.hidden" -> <<".hidden">>
      [] p = "A/build" -> <<"build">>
      [] p = "M" -> <<"M">>

IsDirPath(p) == p \in {"A", "A/sub", "A/.hidden", "A/build"}

\* sorted(directory.iterdir())
Entries(d) ==
    CASE d = "A" -> <<"A/.hidden", "A/a.pdf", "A/b.pdf", "A/build", "A/c.pptx",
                      "A/n.txt", "A/sub">>
      [] d = "A/sub" -> <<"A/sub/a.pdf">>
      [] d = "A/.hidden" -> <<"A/.hidden/h.pdf">>
      [] d = "A/build" -> <<"A/build/d.pdf">>

\* What a file map says of a path: 0: there is no such file; a content id: a
\* file that can be read; StatFails: a file whose stat() raises OSError;
\* NoAccess: a file whose open(), or a directory whose iterdir(), raises
\* PermissionError.  A directory the map does not name exists and can be listed.
StatFails == -1
NoAccess == -2

StateOf(p, fs) ==
    IF p \in DOMAIN fs THEN fs[p] ELSE IF IsDirPath(p) THEN 1 ELSE 0

\* Content ids; 0 is "no file".  Contents 1 and 2 differ and have the same size.
Contents == {1, 2, 3}

SizeOf(c) == CASE c = 1 -> 5 [] c = 2 -> 5 [] c = 3 -> 20

\* Length of the text the converter returns for a file of content c
\* (content 2: a document without extractable text).
TextLen(c) == CASE c = 1 -> 100 [] c = 2 -> 0 [] c = 3 -> 100

\* The scenario of the specification: a.pdf, b.pdf byte-identical to it, c.pptx.
ScenarioFiles ==
    [p \in Paths |-> CASE p = "A/a.pdf" -> 1 [] p = "A/b.pdf" -> 1
                        [] p = "A/c.pptx" -> 3 [] OTHER -> 0]

\* The file sets the pipeline is run on: the scenario; two files of one name and
\* different contents; two files of different contents and a copy of the first
\* under its name in a subdirectory; no file; one file.
FileSets ==
    { [p \in Paths |-> CASE p = "A/a.pdf" -> 1 [] p = "A/b.pdf" -> 1
                         [] p = "A/c.pptx" -> 3 [] OTHER -> 0],
      [p \in Paths |-> CASE p = "A/a.pdf" -> 1 [] p = "A/sub/a.pdf" -> 2
                         [] OTHER -> 0],
      [p \in Paths |-> CASE p = "A/a.pdf" -> 1 [] p = "A/b.pdf" -> 2
                         [] p = "A/sub/a.pdf" -> 1 [] OTHER -> 0],
      [p \in Paths |-> 0],
      [p \in Paths |-> CASE p = "A/a.pdf" -> 1 [] OTHER -> 0] }

\* The root lists main() is given (the first one decides where .summaries is:
\* all of them give A/.summaries).
RootLists == { <<"A">> }

----------------------------------------------------------------------------
(* Strings *)

IsSuffixToken(t) == t \in {".pdf", ".pptx", ".md", ".brief", ".PDF", ".txt"}

\* Path.suffix
PathSuffix(name) ==
    IF Len(name) > 1 /\ IsSuffixToken(name[Len(name)]) THEN name[Len(name)] ELSE ""

\* Path.stem
PathStem(name) ==
    IF Len(name) > 1 /\ IsSuffixToken(name[Len(name)])
    THEN SubSeq(name, 1, Len(name) - 1) ELSE name

\* str.lower() of a suffix
Lower(t) == IF t = ".PDF" THEN ".pdf" ELSE t

\* str.replace(tok, "")
RECURSIVE Replace(_, _)
Replace(s, tok) ==
    IF s = <<>> THEN <<>>
    ELSE IF Head(s) = tok THEN Replace(Tail(s), tok)
    ELSE <<Head(s)>> \o Replace(Tail(s), tok)

SUPPORTED_EXTENSIONS == {".pdf", ".pptx", ".docx", ".xlsx", ".xls", ".csv",
                         ".html", ".htm", ".epub", ".json", ".xml"}

EXCLUDED_DIRS == {".git", ".svn", ".hg", ".cache", ".npm", ".yarn", ".pnpm",
                  ".venv", "venv", "env", ".env", "__pycache__", ".pytest_cache",
                  "node_modules", "vendor", "packages", "Library", ".Trash",
                  ".idea", ".vscode", ".vs", "build", "dist", "target", "out",
                  ".summaries"}

\* item.name.startswith("."): the names of the modelled tree that start with a dot
StartsWithDot(n) == n \in {".git", ".summaries", ".hidden"}

----------------------------------------------------------------------------
(* scan() *)

DocInfo(p, fs) ==
    [original_path |-> p,
     file_type |-> Lower(PathSuffix(NameOf(p))),
     file_size |-> SizeOf(fs[p]),
     md5 |-> fs[p],
     is_duplicate |-> FALSE,
     duplicate_of |-> "",
     markdown_path |-> <<>>,
     conversion_status |-> "pending",
     error_message |-> ""]

\* _add_file: the documents it appends, and whether it raises (the
\* PermissionError of open() in _file_md5 is not caught there)
AddFile(p, fs) ==
    IF Lower(PathSuffix(NameOf(p))) \notin SUPPORTED_EXTENSIONS
    THEN [docs |-> <<>>, raised |-> FALSE]
    ELSE IF StateOf(p, fs) = StatFails THEN [docs |-> <<>>, raised |-> FALSE]
    ELSE IF StateOf(p, fs) = NoAccess THEN [docs |-> <<>>, raised |-> TRUE]
    ELSE [docs |-> <<DocInfo(p, fs)>>, raised |-> FALSE]

\* the for loop of _scan_dir over the sorted items: an exception ends it; the
\* try/except of _scan_dir around the loop makes of a PermissionError in a
\* subdirectory a subdirectory that gave what it had
RECURSIVE ScanItems(_, _)
ScanItems(items, fs) ==
    IF items = <<>> THEN [docs |-> <<>>, raised |-> FALSE]
    ELSE LET item == Head(items)
             name == NameOf(item)[1]
             this ==
                 IF IsDirPath(item)
                 THEN IF StartsWithDot(name) \/ name \in EXCLUDED_DIRS
                      THEN [docs |-> <<>>, raised |-> FALSE]
                      ELSE IF StateOf(item, fs) = NoAccess
                      THEN [docs |-> <<>>, raised |-> FALSE]
                      ELSE [docs |-> ScanItems(Entries(item), fs).docs,
                            raised |-> FALSE]
                 ELSE IF StateOf(item, fs) # 0 THEN AddFile(item, fs)
                 ELSE [docs |-> <<>>, raised |-> FALSE]
         IN  IF this.raised THEN this
             ELSE LET rest == ScanItems(Tail(items), fs)
                  IN  [docs |-> this.docs \o rest.docs, raised |-> rest.raised]

\* _scan_dir: the documents it appends (it catches PermissionError)
ScanDir(d, fs) ==
    IF StateOf(d, fs) = NoAccess THEN <<>> ELSE ScanItems(Entries(d), fs).docs

\* the loop of scan() over self.paths: the documents appended, and whether an
\* exception left scan()
RECURSIVE ScanRoots(_, _)
ScanRoots(roots, fs) ==
    IF roots = <<>> THEN [docs |-> <<>>, raised |-> FALSE]
    ELSE LET r == Head(roots)
             this == IF StateOf(r, fs) = 0 THEN [docs |-> <<>>, raised |-> FALSE]
                     ELSE IF IsDirPath(r)
                     THEN [docs |-> ScanDir(r, fs), raised |-> FALSE]
                     ELSE AddFile(r, fs)
         IN  IF this.raised THEN this
             ELSE LET rest == ScanRoots(Tail(roots), fs)
                  IN  [docs |-> this.docs \o rest.docs, raised |-> rest.raised]

\* list.sort(key=file_size, reverse=True): stable, descending
RECURSIVE InsertBySize(_, _)
InsertBySize(d, sorted) ==
    IF sorted = <<>> THEN <<d>>
    ELSE IF Head(sorted).file_size < d.file_size THEN <<d>> \o sorted
    ELSE <<Head(sorted)>> \o InsertBySize(d, Tail(sorted))

RECURSIVE SortBySize(_)
SortBySize(docs) ==
    IF docs = <<>> THEN <<>>
    ELSE InsertBySize(docs[Len(docs)], SortBySize(SubSeq(docs, 1, Len(docs) - 1)))

\* the loop of _detect_duplicates: seen maps md5 -> first file path
RECURSIVE DetectFrom(_, _)
DetectFrom(docs, seen) ==
    IF docs = <<>> THEN <<>>
    ELSE LET d == Head(docs)
         IN  IF d.md5 \in DOMAIN seen
             THEN <<[d EXCEPT !.is_duplicate = TRUE, !.duplicate_of = seen[d.md5]]>>
                  \o DetectFrom(Tail(docs), seen)
             ELSE <<d>> \o DetectFrom(Tail(docs), seen @@ (d.md5 :> d.original_path))

EmptyMap == [x \in {} |-> 0]

\* (mutant) files are taken for duplicates when their sizes agree
DetectDuplicatesBySize(docs) ==
    LET RECURSIVE F(_, _)
        F(ds, seen) ==
            IF ds = <<>> THEN <<>>
            ELSE LET d == Head(ds)
                 IN  IF d.file_size \in DOMAIN seen
                     THEN <<[d EXCEPT !.is_duplicate = TRUE,
                                      !.duplicate_of = seen[d.file_size]]>>
                          \o F(Tail(ds), seen)
                     ELSE <<d>> \o F(Tail(ds),
                                     seen @@ (d.file_size :> d.original_path))
    IN  F(docs, EmptyMap)

\* _detect_duplicates
DetectDuplicates(docs) == DetectFrom(docs, EmptyMap)

\* scan(): the list it returns
Scan(roots, fs) == DetectDuplicates(SortBySize(ScanRoots(roots, fs).docs))

\* scan(): whether an exception leaves it instead
ScanRaises(roots, fs) == ScanRoots(roots, fs).raised

----------------------------------------------------------------------------
(* State *)

HeaderLen == 72      \* least stripped length of the header convert() writes
MIN_CONTENT == 50    \* summarize(): len(content.strip()) < 50

NoArgs == [paths |-> <<>>, preview |-> FALSE, convert |-> FALSE,
           summarize |-> FALSE, organize |-> FALSE, rename |-> FALSE,
           confirm |-> FALSE]

\* The command lines main() is run with (--rename only matters with --organize,
\* --confirm only with --convert).
ArgSets ==
    { a \in [paths : RootLists, preview : BOOLEAN, convert : BOOLEAN,
             summarize : BOOLEAN, organize : BOOLEAN, rename : BOOLEAN,
             confirm : BOOLEAN] :
        /\ a.rename => a.organize
        /\ a.confirm => a.convert
        /\ a.preview => ~(a.convert \/ a.summarize \/ a.organize) }

NoReport == [total_files |-> 0, converted_count |-> 0, failed_count |-> 0,
             success_count |-> 0, fail_count |-> 0, link_count |-> 0]
NoCalls == [conv |-> <<>>, sum |-> EmptyMap, cls |-> EmptyMap, wrote |-> {},
            scan |-> 0]
NoMemo == [conv |-> EmptyMap, sum |-> EmptyMap, cls |-> EmptyMap]
NoPre == [full |-> "no", killed |-> FALSE, csv |-> <<>>, schemes |-> EmptyMap,
          done |-> {}, briefs |-> {}, results |-> <<>>, steady |-> TRUE]

NoInput == [fn |-> "none"]
NoOutput == [returned |-> FALSE]

\* no process has run and none is running
Fresh ==
    /\ dirs = {}
    /\ converted = EmptyMap
    /\ briefs = EmptyMap
    /\ csv = <<>>
    /\ schemes = EmptyMap
    /\ pc = "idle"
    /\ args = NoArgs
    /\ documents = <<>>
    /\ idx = 0
    /\ report = NoReport
    /\ md_files = <<>>
    /\ results = <<>>
    /\ brief_files = <<>>
    /\ classifications = <<>>
    /\ runs = 0
    /\ last = "none"
    /\ calls = NoCalls
    /\ memo = NoMemo
    /\ pre = NoPre
    /\ envChanges = 0

Init ==
    /\ files \in FileSets
    /\ Fresh
    /\ inp = NoInput
    /\ out = NoOutput

\* A collaborator's answer to a call with input `key`: the one it gave before for
\* the same input, any of `answers` the first time.
Answers(m, key, answers) == IF key \in DOMAIN m THEN {m[key]} ELSE answers

Put(m, key, val) == (key :> val) @@ m

----------------------------------------------------------------------------
(* main() *)

\* main(): parse_args, the help/preview branches, DocConverter(args.paths)
Invoke(a) ==
    /\ pc = "idle"
    /\ runs < MaxRuns
    /\ runs' = runs + 1
    /\ args' = a
    /\ documents' = IF a.preview THEN Scan(a.paths, files) ELSE <<>>
    /\ IF a.preview \/ ~(a.convert \/ a.summarize \/ a.organize)
       THEN pc' = "exit" /\ last' = "returned"
       ELSE pc' = "main_convert" /\ last' = "running"
    /\ calls' = [NoCalls EXCEPT !.scan = IF a.preview THEN 1 ELSE 0]
    /\ UNCHANGED <<files, fsVars, idx, report, md_files, results, brief_files,
                   classifications, memo, pre, envChanges>>
    /\ UNCHANGED fnVars

\* if args.convert: ... is skipped
ConvertSkip ==
    /\ pc = "main_convert"
    /\ ~args.convert
    /\ pc' = "main_summarize"
    /\ UNCHANGED <<files, fsVars, procVars, runs, last, calls, memo, pre, envChanges>>
    /\ UNCHANGED fnVars

\* (mutant) without --confirm only convert() is left out
ConvertRefusedGoesOn ==
    /\ pc = "main_convert"
    /\ args.convert /\ ~args.confirm
    /\ pc' = "main_summarize"
    /\ UNCHANGED <<files, fsVars, procVars, runs, last, calls, memo, pre, envChanges>>
    /\ UNCHANGED fnVars

\* if not args.confirm: return
ConvertRefused ==
    /\ pc = "main_convert"
    /\ args.convert /\ ~args.confirm
    /\ pc' = "exit" /\ last' = "returned"
    /\ UNCHANGED <<files, fsVars, procVars, runs, calls, memo, pre, envChanges>>
    /\ UNCHANGED fnVars

\* if not check_markitdown(): sys.exit(1)
ConvertNoMarkitdown ==
    /\ pc = "main_convert"
    /\ args.convert /\ args.confirm
    /\ pc' = "exit" /\ last' = "exit1"
    /\ UNCHANGED <<files, fsVars, procVars, runs, calls, memo, pre, envChanges>>
    /\ UNCHANGED fnVars

\* convert() up to its loop: scan, the empty case, makedirs, the report
ConvertBegin ==
    /\ pc = "main_convert"
    /\ args.convert /\ args.confirm
    /\ LET docs == IF documents = <<>> THEN Scan(args.paths, files) ELSE documents
           scanned == IF documents = <<>> THEN 1 ELSE 0
       IN  /\ documents' = docs
           /\ IF docs = <<>>
              THEN /\ pc' = "main_summarize"
                   /\ calls' = [calls EXCEPT !.scan = @ + scanned]
                   /\ UNCHANGED <<dirs, idx, report>>
              ELSE /\ pc' = "convert"
                   /\ dirs' = dirs \cup {"converted", "briefs"}
                   /\ idx' = 1
                   /\ report' = [NoReport EXCEPT !.total_files = Len(docs)]
                   /\ calls' = [calls EXCEPT !.conv = [i \in 1..Len(docs) |-> 0],
                                             !.scan = @ + scanned]
    /\ UNCHANGED <<files, converted, briefs, csv, schemes, args, md_files, results,
                   brief_files, classifications, runs, last, memo, pre, envChanges>>
    /\ UNCHANGED fnVars

\* md_filename = f"{name}{ext}.md"
MdName(doc) == PathStem(NameOf(doc.original_path)) \o <<doc.file_type>> \o <<".md">>

\* What the converter, and then writing the artifact, can do for one document.
ConvAnswers == {"ok", "fail", "wfail0", "wfailH"}

\* (mutant) the artifact is the converter's text and nothing else
ArtifactTextOnly(doc, answer) ==
    CASE answer = "ok" ->
           [src |-> doc.original_path, text |-> doc.md5, whole |-> TRUE,
            chars |-> TextLen(doc.md5)]
      [] answer = "wfail0" ->
           [src |-> doc.original_path, text |-> 0, whole |-> FALSE, chars |-> 0]
      [] answer = "wfailH" ->
           [src |-> doc.original_path, text |-> 0, whole |-> FALSE, chars |-> 0]

\* the artifact file after the with-block of convert()
Artifact(doc, answer) ==
    CASE answer = "ok" ->
           [src |-> doc.original_path, text |-> doc.md5, whole |-> TRUE,
            chars |-> HeaderLen + TextLen(doc.md5)]
      [] answer = "wfail0" ->
           [src |-> doc.original_path, text |-> 0, whole |-> FALSE, chars |-> 0]
      [] answer = "wfailH" ->
           [src |-> doc.original_path, text |-> 0, whole |-> FALSE,
            chars |-> HeaderLen]

\* (mutant) duplicates are converted like the rest
NeverSkipped(doc) == FALSE

\* (mutant) a document whose artifact is there is not converted again
SkipsConverted(doc) ==
    \/ doc.is_duplicate
    \/ /\ MdName(doc) \in DOMAIN converted
       /\ converted[MdName(doc)] = Artifact(doc, "ok")

\* if doc.is_duplicate: ... continue
IsSkipped(doc) == doc.is_duplicate

\* (mutant) the first failure ends the loop
AbortOnFailure(i, answer) == IF answer = "ok" THEN i + 1 ELSE Len(documents) + 1

\* the for loop of convert() goes on to the next document, whatever the answer
NextIndex(i, answer) == i + 1

\* (mutant) the artifact path is set before the artifact is written
ConvertedPathFirst(doc, answer) ==
    IF answer = "ok"
    THEN [doc EXCEPT !.markdown_path = MdName(doc), !.conversion_status = "success"]
    ELSE [doc EXCEPT !.conversion_status = "failed",
                     !.markdown_path = IF answer = "fail" THEN @ ELSE MdName(doc),
                     !.error_message =
                         IF answer = "fail" THEN "convert_error" ELSE "write_error"]

\* the try/except of convert() for one document
Converted(doc, answer) ==
    IF answer = "ok"
    THEN [doc EXCEPT !.markdown_path = MdName(doc), !.conversion_status = "success"]
    ELSE [doc EXCEPT !.conversion_status = "failed",
                     !.error_message =
                         IF answer = "fail" THEN "convert_error" ELSE "write_error"]

\* one iteration of the loop of convert()
ConvertStep ==
    /\ pc = "convert"
    /\ idx <= Len(documents)
    /\ LET doc == documents[idx]
       IN  \/ /\ IsSkipped(doc)
              /\ documents' = [documents EXCEPT
                                 ![idx].conversion_status = "skipped_duplicate"]
              /\ idx' = idx + 1
              /\ UNCHANGED <<converted, report, calls, memo>>
           \/ /\ ~IsSkipped(doc)
              /\ \E answer \in Answers(memo.conv, doc.original_path, ConvAnswers) :
                    /\ calls' = [calls EXCEPT !.conv[idx] = @ + 1]
                    /\ memo' = [memo EXCEPT
                                  !.conv = Put(@, doc.original_path, answer)]
                    /\ documents' = [documents EXCEPT ![idx] = Converted(doc, answer)]
                    /\ converted' = IF answer = "fail" THEN converted
                                    ELSE Put(converted, MdName(doc),
                                             Artifact(doc, answer))
                    /\ report' = IF answer = "ok"
                                 THEN [report EXCEPT !.converted_count = @ + 1]
                                 ELSE [report EXCEPT !.failed_count = @ + 1]
                    /\ idx' = NextIndex(idx, answer)
    /\ UNCHANGED <<files, dirs, briefs, csv, schemes, pc, args, md_files, results,
                   brief_files, classifications, runs, last, pre, envChanges>>
    /\ UNCHANGED fnVars

\* (mutant) the index leaves the duplicates out
CsvRowsCanonical(docs) ==
    LET canon == SelectSeq(docs, LAMBDA d : ~d.is_duplicate)
    IN  [i \in 1..Len(canon) |->
            [original_path |-> canon[i].original_path,
             markdown_path |-> canon[i].markdown_path,
             md5 |-> canon[i].md5,
             is_duplicate |-> canon[i].is_duplicate,
             duplicate_of |-> canon[i].duplicate_of,
             conversion_status |-> canon[i].conversion_status,
             error_message |-> canon[i].error_message]]

\* _write_csv: one row per document
CsvRows(docs) ==
    [i \in 1..Len(docs) |->
        [original_path |-> docs[i].original_path,
         markdown_path |-> docs[i].markdown_path,
         md5 |-> docs[i].md5,
         is_duplicate |-> docs[i].is_duplicate,
         duplicate_of |-> docs[i].duplicate_of,
         conversion_status |-> docs[i].conversion_status,
         error_message |-> docs[i].error_message]]

\* the end of convert(): the index is written, the report printed
ConvertFinish ==
    /\ pc = "convert"
    /\ idx > Len(documents)
    /\ csv' = <<CsvRows(documents)>>
    /\ pc' = "main_summarize"
    /\ idx' = 0
    /\ UNCHANGED <<files, dirs, converted, briefs, schemes, args, documents, report,
                   md_files, results, brief_files, classifications, runs, last,
                   calls, memo, pre, envChanges>>
    /\ UNCHANGED fnVars

----------------------------------------------------------------------------
(* summarize() *)

\* sorted(Path(converted_dir).glob("*.md")): the artifact names in sorted order
MdOrder == << <<"a", ".pdf", ".md">>, <<"b", ".pdf", ".md">>, <<"c", ".pptx", ".md">> >>

\* sorted(Path(briefs_dir).glob("*.brief.md"))
BriefOrder == << <<"a", ".pdf", ".brief", ".md">>, <<"b", ".pdf", ".brief", ".md">>,
                 <<"c", ".pptx", ".brief", ".md">> >>

Present(order, names) == SelectSeq(order, LAMBDA n : n \in names)

SummarizeSkip ==
    /\ pc = "main_summarize"
    /\ ~args.summarize
    /\ pc' = "main_organize"
    /\ UNCHANGED <<files, fsVars, procVars, runs, last, calls, memo, pre, envChanges>>
    /\ UNCHANGED fnVars

\* ok, err = check_ollama(args.model); if not ok: sys.exit(1)
SummarizeNoOllama ==
    /\ pc = "main_summarize"
    /\ args.summarize
    /\ pc' = "exit" /\ last' = "no_generator"
    /\ UNCHANGED <<files, fsVars, procVars, runs, calls, memo, pre, envChanges>>
    /\ UNCHANGED fnVars

\* summarize() up to its loop
SummarizeBegin ==
    /\ pc = "main_summarize"
    /\ args.summarize
    /\ dirs' = dirs \cup {"briefs"}
    /\ LET md == Present(MdOrder, DOMAIN converted)
       IN  IF "converted" \notin dirs \/ md = <<>>
           THEN /\ pc' = "main_organize"
                /\ UNCHANGED <<md_files, results, idx, report>>
           ELSE /\ pc' = "summarize"
                /\ md_files' = md
                /\ results' = <<>>
                /\ idx' = 1
                /\ report' = [report EXCEPT !.success_count = 0, !.fail_count = 0]
    /\ UNCHANGED <<files, converted, briefs, csv, schemes, args, documents,
                   brief_files, classifications, runs, last, calls, memo, pre,
                   envChanges>>
    /\ UNCHANGED fnVars

\* brief_path: f"{name}.brief.md" with name = md_file.stem
BriefName(md) == PathStem(md) \o <<".brief">> \o <<".md">>

\* if len(content.strip()) < 50: skipped
TooShort(art) == art.chars < MIN_CONTENT

\* (mutant) an artifact whose brief is there is not summarized again
SummarizesNew(art, bname) == ~TooShort(art) /\ bname \notin DOMAIN briefs

\* whether summarize() hands the artifact to the generator
Summarizes(art, bname) == ~TooShort(art)

\* (mutant) the brief is written before the generator is called
BriefAlwaysWritten(answer) == TRUE

\* the brief is written when ollama_summarize has returned, not when it raised
BriefWritten(answer) == answer = "ok"

Count(m, key) == IF key \in DOMAIN m THEN m[key] ELSE 0

\* one iteration of the loop of summarize()
SummarizeStep ==
    /\ pc = "summarize"
    /\ idx <= Len(md_files)
    /\ LET md == md_files[idx]
           art == converted[md]
           bname == BriefName(md)
       IN  \/ /\ ~Summarizes(art, bname)
              /\ results' = Append(results, [file |-> md, status |-> "skipped"])
              /\ UNCHANGED <<briefs, report, calls, memo>>
           \/ /\ Summarizes(art, bname)
              /\ \E answer \in Answers(memo.sum, <<md, art>>, {"ok", "fail"}) :
                    /\ calls' = [calls EXCEPT
                                   !.sum = Put(@, md, Count(@, md) + 1),
                                   !.wrote = IF BriefWritten(answer)
                                             THEN @ \cup {bname} ELSE @]
                    /\ memo' = [memo EXCEPT !.sum = Put(@, <<md, art>>, answer)]
                    /\ briefs' = IF BriefWritten(answer)
                                 THEN Put(briefs, bname, [of |-> art]) ELSE briefs
                    /\ IF answer = "ok"
                       THEN /\ results' = Append(results,
                                            [file |-> md, status |-> "success"])
                            /\ report' = [report EXCEPT !.success_count = @ + 1]
                       ELSE /\ results' = Append(results,
                                            [file |-> md, status |-> "failed",
                                             error |-> "generator_error"])
                            /\ report' = [report EXCEPT !.fail_count = @ + 1]
    /\ idx' = idx + 1
    /\ UNCHANGED <<files, dirs, converted, csv, schemes, pc, args, documents,
                   md_files, brief_files, classifications, runs, last, pre,
                   envChanges>>
    /\ UNCHANGED fnVars

\* the end of summarize()
SummarizeFinish ==
    /\ pc = "summarize"
    /\ idx > Len(md_files)
    /\ pc' = "main_organize"
    /\ idx' = 0
    /\ UNCHANGED <<files, fsVars, args, documents, report, md_files, results,
                   brief_files, classifications, runs, last, calls, memo, pre,
                   envChanges>>
    /\ UNCHANGED fnVars

----------------------------------------------------------------------------
(* organize() *)

\* if args.organize: ... is skipped, and main() returns
OrganizeSkip ==
    /\ pc = "main_organize"
    /\ ~args.organize
    /\ pc' = "exit" /\ last' = "returned"
    /\ UNCHANGED <<files, fsVars, procVars, runs, calls, memo, pre, envChanges>>
    /\ UNCHANGED fnVars

\* (mutant) the generator is checked in the classification loop
OrganizeChecksInLoop ==
    /\ pc = "classify"
    /\ idx > 1
    /\ pc' = "exit" /\ last' = "no_generator"
    /\ UNCHANGED <<files, fsVars, procVars, runs, calls, memo, pre, envChanges>>
    /\ UNCHANGED fnVars

\* ok, err = check_ollama(args.model); if not ok: sys.exit(1)
OrganizeNoOllama ==
    /\ pc = "main_organize"
    /\ args.organize
    /\ pc' = "exit" /\ last' = "no_generator"
    /\ UNCHANGED <<files, fsVars, procVars, runs, calls, memo, pre, envChanges>>
    /\ UNCHANGED fnVars

\* organize() up to its loop: the two early returns, the scan
OrganizeBegin ==
    /\ pc = "main_organize"
    /\ args.organize
    /\ LET bfs == Present(BriefOrder, DOMAIN briefs)
       IN  IF "briefs" \notin dirs \/ bfs = <<>>
           THEN /\ pc' = "exit" /\ last' = "returned"
                /\ UNCHANGED <<documents, brief_files, classifications, idx,
                               calls>>
           ELSE /\ pc' = "classify" /\ last' = last
                /\ documents' = IF documents = <<>> THEN Scan(args.paths, files)
                                ELSE documents
                /\ calls' = [calls EXCEPT
                               !.scan = IF documents = <<>> THEN @ + 1 ELSE @]
                /\ brief_files' = bfs
                /\ classifications' = <<>>
                /\ idx' = 1
    /\ UNCHANGED <<files, fsVars, args, report, md_files, results, runs, memo,
                   pre, envChanges>>
    /\ UNCHANGED fnVars

\* key = Path(doc.original_path).stem + doc.file_type
DocKey(doc) == PathStem(NameOf(doc.original_path)) \o <<doc.file_type>>

\* orig_map: a later document overwrites an earlier one with the same key
\* (mutant) the first document of a key keeps it
RECURSIVE OrigMapFirst(_, _)
OrigMapFirst(docs, m) ==
    IF docs = <<>> THEN m
    ELSE OrigMapFirst(Tail(docs),
                      IF DocKey(Head(docs)) \in DOMAIN m THEN m
                      ELSE Put(m, DocKey(Head(docs)), Head(docs).original_path))

RECURSIVE OrigMapFrom(_, _)
OrigMapFrom(docs, m) ==
    IF docs = <<>> THEN m
    ELSE OrigMapFrom(Tail(docs), Put(m, DocKey(Head(docs)), Head(docs).original_path))

OrigMap(docs) == OrigMapFrom(docs, EmptyMap)

\* doc_key = bf.stem.replace(".brief", "")
BriefKey(bf) == Replace(PathStem(bf), ".brief")

UNCLASSIFIED == "unclassified"

\* Python's None, where a string is expected
None == "None:NoneType"

\* What ollama_classify gives for one brief: a parsed classification ("K1");
\* "bad": the call raises, or the response does not parse, or it parses to
\* something that is no object, and the sentinel is recorded; "nullcat": the
\* response parses to an object whose topic is null.
ClsAnswers == {"K1", "bad", "nullcat"}

Cats(answer) ==
    CASE answer = "K1" ->
           [topic |-> "t1", usage |-> "u1", client |-> "k1", suggested_name |-> "n1"]
      [] answer = "nullcat" ->
           [topic |-> None, usage |-> "u1", client |-> "k1", suggested_name |-> "n1"]
      [] answer = "bad" ->
           [topic |-> UNCLASSIFIED, usage |-> UNCLASSIFIED, client |-> UNCLASSIFIED,
            suggested_name |-> ""]

\* the entry appended to classifications
Item(bf, docs, answer) ==
    LET key == BriefKey(bf)
        m == OrigMap(docs)
        cats == Cats(answer)
    IN  [filename |-> key,
         original_path |-> IF key \in DOMAIN m THEN m[key] ELSE "",
         topic |-> cats.topic, usage |-> cats.usage, client |-> cats.client,
         suggested_name |-> cats.suggested_name]

\* one iteration of the classification loop of organize()
ClassifyStep ==
    /\ pc = "classify"
    /\ idx <= Len(brief_files)
    /\ LET bf == brief_files[idx]
       IN  \E answer \in Answers(memo.cls, <<bf, briefs[bf]>>, ClsAnswers) :
              /\ calls' = [calls EXCEPT !.cls = Put(@, bf, Count(@, bf) + 1)]
              /\ memo' = [memo EXCEPT !.cls = Put(@, <<bf, briefs[bf]>>, answer)]
              /\ classifications' = Append(classifications,
                                           Item(bf, documents, answer))
    /\ idx' = idx + 1
    /\ UNCHANGED <<files, fsVars, pc, args, documents, report, md_files, results,
                   brief_files, runs, last, pre, envChanges>>
    /\ UNCHANGED fnVars

SchemeNames == << [dir |-> "by-topic", key |-> "topic"],
                  [dir |-> "by-usage", key |-> "usage"],
                  [dir |-> "by-client", key |-> "client"] >>

\* (mutant) a suggested name is used whether or not rename is requested
LinkNameSuggested(item, rename) ==
    LET orig_name == NameOf(item.original_path)
    IN  IF item.suggested_name # ""
        THEN <<item.suggested_name>> \o <<PathSuffix(orig_name)>>
        ELSE orig_name

\* link_name: the suggested name with the original suffix, or the original name
LinkName(item, rename) ==
    LET orig_name == NameOf(item.original_path)
    IN  IF rename /\ item.suggested_name # ""
        THEN <<item.suggested_name>> \o <<PathSuffix(orig_name)>>
        ELSE orig_name

\* (mutant) a reference that exists is replaced
RECURSIVE LinkItemsOverwrite(_, _, _, _)
LinkItemsOverwrite(acc, scheme, items, rename) ==
    IF items = <<>> \/ acc.error THEN acc
    ELSE LET item == Head(items)
             dst == <<scheme.dir, item[scheme.key], LinkName(item, rename)>>
         IN  IF item.original_path = ""
             THEN LinkItemsOverwrite(acc, scheme, Tail(items), rename)
             ELSE IF item[scheme.key] = None THEN [acc EXCEPT !.error = TRUE]
             ELSE LinkItemsOverwrite([acc EXCEPT
                                        !.tree = Put(@, dst, item.original_path),
                                        !.count = @ + 1],
                                     scheme, Tail(items), rename)

\* (mutant) a reference that is not created is counted
RECURSIVE LinkItemsCountingAll(_, _, _, _)
LinkItemsCountingAll(acc, scheme, items, rename) ==
    IF items = <<>> \/ acc.error THEN acc
    ELSE LET item == Head(items)
             dst == <<scheme.dir, item[scheme.key], LinkName(item, rename)>>
         IN  IF item.original_path = ""
             THEN LinkItemsCountingAll(acc, scheme, Tail(items), rename)
             ELSE IF item[scheme.key] = None THEN [acc EXCEPT !.error = TRUE]
             ELSE IF dst \in DOMAIN acc.tree
             THEN LinkItemsCountingAll([acc EXCEPT !.count = @ + 1],
                                       scheme, Tail(items), rename)
             ELSE LinkItemsCountingAll([acc EXCEPT
                                          !.tree = Put(@, dst, item.original_path),
                                          !.count = @ + 1],
                                       scheme, Tail(items), rename)

\* the inner loop of the materialization: the items of one scheme.  os.path.join
\* raises TypeError for a category that is no string: the loops end there.
RECURSIVE LinkItems(_, _, _, _)
LinkItems(acc, scheme, items, rename) ==
    IF items = <<>> \/ acc.error THEN acc
    ELSE LET item == Head(items)
             dst == <<scheme.dir, item[scheme.key], LinkName(item, rename)>>
         IN  IF item.original_path = "" THEN LinkItems(acc, scheme, Tail(items), rename)
             ELSE IF item[scheme.key] = None THEN [acc EXCEPT !.error = TRUE]
             ELSE IF dst \in DOMAIN acc.tree
             THEN LinkItems(acc, scheme, Tail(items), rename)
             ELSE LinkItems([acc EXCEPT !.tree = Put(@, dst, item.original_path),
                                        !.count = @ + 1],
                            scheme, Tail(items), rename)

RECURSIVE LinkSchemes(_, _, _, _)
LinkSchemes(acc, schemeSeq, items, rename) ==
    IF schemeSeq = <<>> \/ acc.error THEN acc
    ELSE LinkSchemes(LinkItems(acc, Head(schemeSeq), items, rename),
                     Tail(schemeSeq), items, rename)

\* (mutant) the old tree is not removed
MaterializeKeepingOld(old, items, rename) ==
    LinkSchemes([tree |-> old, count |-> 0, error |-> FALSE],
                SchemeNames, items, rename)

\* shutil.rmtree(schemes_dir), then the three link trees
Materialized(old, items, rename) ==
    LinkSchemes([tree |-> EmptyMap, count |-> 0, error |-> FALSE],
                SchemeNames, items, rename)

\* (mutant) the originals are moved into the tree
MaterializeMoving ==
    /\ pc = "classify"
    /\ idx > Len(brief_files)
    /\ LET m == Materialized(schemes, classifications, args.rename)
       IN  /\ schemes' = m.tree
           /\ report' = [report EXCEPT !.link_count = m.count]
           /\ last' = IF m.error THEN "raised" ELSE "returned"
           /\ files' = [p \in Paths |->
                           IF \E l \in DOMAIN m.tree : m.tree[l] = p THEN 0
                           ELSE files[p]]
    /\ pc' = "exit"
    /\ UNCHANGED <<dirs, converted, briefs, csv, args, documents, idx,
                   md_files, results, brief_files, classifications, runs, calls,
                   memo, pre, envChanges>>
    /\ UNCHANGED fnVars

\* the rest of organize(): the schemes tree is rebuilt, main() returns; or the
\* TypeError leaves organize() and main(), and the tree stays as far as it got
Materialize ==
    /\ pc = "classify"
    /\ idx > Len(brief_files)
    /\ LET m == Materialized(schemes, classifications, args.rename)
       IN  /\ schemes' = m.tree
           /\ report' = [report EXCEPT !.link_count = m.count]
           /\ last' = IF m.error THEN "raised" ELSE "returned"
    /\ pc' = "exit"
    /\ UNCHANGED <<files, dirs, converted, briefs, csv, args, documents, idx,
                   md_files, results, brief_files, classifications, runs, calls,
                   memo, pre, envChanges>>
    /\ UNCHANGED fnVars

----------------------------------------------------------------------------
(* The process ends; the environment *)

\* The process is killed in the loop of convert().
Interrupt ==
    /\ pc = "convert"
    /\ pc' = "exit" /\ last' = "killed"
    /\ UNCHANGED <<files, fsVars, procVars, runs, calls, memo, pre, envChanges>>
    /\ UNCHANGED fnVars

\* The process is gone: what stays is what it left in .summaries.
ProcessEnd ==
    /\ pc = "exit"
    /\ pc' = "idle"
    /\ pre' = [full |-> IF last = "returned" /\ args.convert /\ args.confirm
                             /\ args.summarize /\ args.organize
                          THEN (IF args.rename THEN "rename" ELSE "plain")
                          ELSE "no",
               killed |-> (last = "killed"),
               csv |-> csv, schemes |-> schemes,
               done |-> {converted[m].src : m \in {n \in DOMAIN converted :
                                                     converted[n].whole}},
               briefs |-> DOMAIN briefs,
               results |-> results,
               steady |-> TRUE]
    /\ args' = NoArgs
    /\ documents' = <<>>
    /\ idx' = 0
    /\ report' = NoReport
    /\ md_files' = <<>>
    /\ results' = <<>>
    /\ brief_files' = <<>>
    /\ classifications' = <<>>
    /\ calls' = NoCalls
    /\ UNCHANGED <<files, fsVars, runs, last, memo, envChanges>>
    /\ UNCHANGED fnVars

\* Between two complete runs of the pipeline the collaborators change (another
\* converter version, another model): their earlier answers bind them no more.
EnvChange ==
    /\ pc = "idle"
    /\ pre.full # "no"
    /\ runs < MaxRuns
    /\ envChanges < MaxEnvChanges
    /\ envChanges' = envChanges + 1
    /\ memo' = NoMemo
    /\ pre' = [pre EXCEPT !.steady = FALSE]
    /\ UNCHANGED <<files, fsVars, pc, procVars, runs, last, calls>>
    /\ UNCHANGED fnVars

\* Between two complete runs of the pipeline the user removes an original file.
RemoveFile(p) ==
    /\ pc = "idle"
    /\ pre.full # "no"
    /\ runs < MaxRuns
    /\ envChanges < MaxEnvChanges
    /\ files[p] # 0
    /\ files' = [files EXCEPT ![p] = 0]
    /\ envChanges' = envChanges + 1
    /\ pre' = [pre EXCEPT !.steady = FALSE]
    /\ UNCHANGED <<fsVars, pc, procVars, runs, last, calls, memo>>
    /\ UNCHANGED fnVars

Next ==
    \/ \E a \in ArgSets : Invoke(a)
    \/ ConvertSkip
    \/ ConvertRefused
    \/ ConvertNoMarkitdown
    \/ ConvertBegin
    \/ ConvertStep
    \/ ConvertFinish
    \/ SummarizeSkip
    \/ SummarizeNoOllama
    \/ SummarizeBegin
    \/ SummarizeStep
    \/ SummarizeFinish
    \/ OrganizeSkip
    \/ OrganizeNoOllama
    \/ OrganizeBegin
    \/ ClassifyStep
    \/ Materialize
    \/ Interrupt
    \/ ProcessEnd
    \/ EnvChange
    \/ \E p \in Paths : RemoveFile(p)

Spec == Init /\ [][Next]_vars

----------------------------------------------------------------------------
(* ollama_classify: the response of the generator is parsed *)

\* The text of a response is a sequence of tokens: Fence is the code fence of
\* three backticks, "json" the four
\* letters json, "w" white space, "t" any other text (prose, another language
\* tag), "O" the text of a JSON object that holds no fence.
Fence == "<fence>"
Tokens == {Fence, "json", "w", "t", "O"}

MaxResp == 6

RECURSIVE SeqsUpTo(_, _)
SeqsUpTo(S, n) ==
    IF n = 0 THEN {<<>>}
    ELSE LET shorter == SeqsUpTo(S, n - 1)
         IN  shorter \cup {Append(q, x) : q \in shorter, x \in S}

Responses == SeqsUpTo(Tokens, MaxResp)

\* the fence is in content
HasFence(c) == \E i \in 1..Len(c) : c[i] = Fence

\* content.split(fence): the pieces between the fences
RECURSIVE Split(_)
Split(c) ==
    IF ~HasFence(c) THEN <<c>>
    ELSE LET i == CHOOSE k \in 1..Len(c) :
                     c[k] = Fence /\ \A m \in 1..(k - 1) : c[m] # Fence
         IN  <<SubSeq(c, 1, i - 1)>> \o Split(SubSeq(c, i + 1, Len(c)))

\* str.strip()
RECURSIVE LStrip(_)
LStrip(c) == IF c # <<>> /\ Head(c) = "w" THEN LStrip(Tail(c)) ELSE c

RECURSIVE RStrip(_)
RStrip(c) ==
    IF c # <<>> /\ c[Len(c)] = "w" THEN RStrip(SubSeq(c, 1, Len(c) - 1)) ELSE c

Strip(c) == RStrip(LStrip(c))

\* (mutant) the language tag is left in the piece
KeepTag(piece) == piece

\* if content.startswith("json"): content = content[4:]
StripTag(piece) == IF piece # <<>> /\ Head(piece) = "json" THEN Tail(piece) ELSE piece

\* json.loads: the object, or JSONDecodeError for any other text
JsonLoads(c) == IF c = <<"O">> THEN "K1" ELSE "bad"

\* ollama_classify from the content of the message on: what it returns (an
\* answer of ClsAnswers: the parsed object or the sentinel)
ParseResponse(content) ==
    LET stripped == Strip(content)
        body == IF HasFence(stripped) THEN StripTag(Split(stripped)[2]) ELSE stripped
    IN  JsonLoads(Strip(body))

----------------------------------------------------------------------------
(* ollama_summarize: the content is cut to the budget *)

MAX_CONTENT_CHARS == 8000

\* The lengths of the contents ollama_summarize is applied to.  A content is
\* known by its length, and so is a prefix of it.
ContentLens == {0, 1, 7999, 8000, 8001, 8002, 16000}

\* (mutant) the note is added from the budget on
TruncatedFromBudgetOn(n) ==
    [chars |-> IF n < MAX_CONTENT_CHARS THEN n ELSE MAX_CONTENT_CHARS,
     notes |-> IF n >= MAX_CONTENT_CHARS
               THEN <<[budget |-> MAX_CONTENT_CHARS, original |-> n]>> ELSE <<>>]

\* truncated: content[:MAX_CONTENT_CHARS], and the note appended to it when
\* len(content) > MAX_CONTENT_CHARS
Truncated(n) ==
    [chars |-> IF n < MAX_CONTENT_CHARS THEN n ELSE MAX_CONTENT_CHARS,
     notes |-> IF n > MAX_CONTENT_CHARS
               THEN <<[budget |-> MAX_CONTENT_CHARS, original |-> n]>> ELSE <<>>]

----------------------------------------------------------------------------
(* ollama_summarize, ollama_classify: the content of the message *)

\* A field of the message of the response: the key is missing ("absent"), its
\* value is null, or it is a string, a sequence of the tokens "w" (white
\* space) and "x" (any other text).
MaxField == 2

Fields ==
    {[kind |-> "absent"], [kind |-> "null"]}
        \cup {[kind |-> "str", text |-> t] : t \in SeqsUpTo({"w", "x"}, MaxField)}

\* msg.get("content", "")
GetOrEmpty(f) == IF f.kind = "absent" THEN [kind |-> "str", text |-> <<>>] ELSE f

\* the truth value of msg.get("thinking")
Truthy(f) == f.kind = "str" /\ f.text # <<>>

\* (mutant) the thinking field is never read
PrimaryOnly(msg) ==
    LET c == GetOrEmpty(msg.content)
    IN  IF c.kind = "null" THEN [raised |-> TRUE, text |-> <<>>]
        ELSE [raised |-> FALSE, text |-> Strip(c.text)]

\* content = msg.get("content", "").strip(); if not content and
\* msg.get("thinking"): content = msg["thinking"].strip().  None has no
\* strip(): AttributeError.
SelectContent(msg) ==
    LET c == GetOrEmpty(msg.content)
    IN  IF c.kind = "null" THEN [raised |-> TRUE, text |-> <<>>]
        ELSE IF Strip(c.text) = <<>> /\ Truthy(msg.thinking)
        THEN [raised |-> FALSE, text |-> Strip(msg.thinking.text)]
        ELSE [raised |-> FALSE, text |-> Strip(c.text)]

----------------------------------------------------------------------------
(* The functions applied on their own *)

\* The trees scan() is applied to: every file is absent, readable or without
\* access; a.pdf may also fail stat(); sub may be a directory without access.
ScanTrees ==
    { fs \in [Paths \cup {"A/sub"} -> {0, 1, StatFails, NoAccess}] :
        /\ fs["A/sub"] \in {1, NoAccess}
        /\ \A p \in Paths \ {"A/a.pdf"} : fs[p] # StatFails }

\* The root lists scan() is applied to: a directory; a directory of the
\* deny-list; a file; a file in a directory of the deny-list; a root that does
\* not exist before a directory; a subdirectory and a file.
ScanRootLists ==
    { <<"A">>, <<"A/build">>, <<"A/a.pdf">>, <<"A/build/d.pdf">>, <<"M", "A">>,
      <<"A/sub", "A/b.pdf">> }

\* The lists of documents the naming of the artifacts is applied to: files
\* whose names hold the brief marker or an upper-case suffix, and files of one
\* name in two directories.
KeyPaths == {"A/a.pdf", "A/sub/a.pdf", "A/r.brief.pdf", "A/R.PDF"}

\* what _add_file records of a path that the naming reads
KeyDoc(p) == [original_path |-> p, file_type |-> Lower(PathSuffix(NameOf(p)))]

KeyLists ==
    {<<KeyDoc(p)>> : p \in KeyPaths}
        \cup {<<KeyDoc(pq[1]), KeyDoc(pq[2])>> :
                 pq \in {x \in KeyPaths \X KeyPaths : x[1] # x[2]}}

FnInit ==
    /\ files = [p \in Paths |-> 0]
    /\ Fresh
    /\ out = NoOutput
    /\ \/ \E r \in Responses : inp = [fn |-> "ollama_classify", content |-> r]
       \/ \E n \in ContentLens : inp = [fn |-> "ollama_summarize", content |-> n]
       \/ \E fs \in ScanTrees : \E roots \in ScanRootLists :
             inp = [fn |-> "scan", paths |-> roots, fs |-> fs]
       \/ \E f \in {"ollama_summarize", "ollama_classify"} :
             \E c, t \in Fields :
                inp = [fn |-> "message", of |-> f,
                       msg |-> [content |-> c, thinking |-> t]]
       \/ \E docs \in KeyLists : \E i \in 1..Len(docs) :
             inp = [fn |-> "organize", docs |-> docs, i |-> i]

ApplyClassify ==
    /\ inp.fn = "ollama_classify" /\ ~out.returned
    /\ out' = [returned |-> TRUE, value |-> ParseResponse(inp.content)]
    /\ UNCHANGED <<files, fsVars, pc, procVars, runs, last, calls, memo, pre,
                   envChanges, inp>>

ApplySummarize ==
    /\ inp.fn = "ollama_summarize" /\ ~out.returned
    /\ out' = [returned |-> TRUE, value |-> Truncated(inp.content)]
    /\ UNCHANGED <<files, fsVars, pc, procVars, runs, last, calls, memo, pre,
                   envChanges, inp>>

\* scan() returns its list, or an exception leaves it
ApplyScan ==
    /\ inp.fn = "scan" /\ ~out.returned
    /\ out' = [returned |-> TRUE,
               raised |-> ScanRaises(inp.paths, inp.fs),
               value |-> IF ScanRaises(inp.paths, inp.fs) THEN <<>>
                         ELSE Scan(inp.paths, inp.fs)]
    /\ UNCHANGED <<files, fsVars, pc, procVars, runs, last, calls, memo, pre,
                   envChanges, inp>>

\* the content either function takes from the message, or the exception
ApplySelect ==
    /\ inp.fn = "message" /\ ~out.returned
    /\ out' = [returned |-> TRUE,
               raised |-> SelectContent(inp.msg).raised,
               value |-> SelectContent(inp.msg).text]
    /\ UNCHANGED <<files, fsVars, pc, procVars, runs, last, calls, memo, pre,
                   envChanges, inp>>

\* the names convert() and summarize() give the artifact and the brief of
\* document i, and the entry organize() makes of that brief
ApplyNaming ==
    /\ inp.fn = "organize" /\ ~out.returned
    /\ LET md == MdName(inp.docs[inp.i])
           bf == BriefName(md)
       IN  out' = [returned |-> TRUE,
                   value |-> [md |-> md, brief |-> bf,
                              item |-> Item(bf, inp.docs, "K1")]]
    /\ UNCHANGED <<files, fsVars, pc, procVars, runs, last, calls, memo, pre,
                   envChanges, inp>>

FnNext ==
    ApplyClassify \/ ApplySummarize \/ ApplyScan \/ ApplySelect \/ ApplyNaming

FnSpec == FnInit /\ [][FnNext]_vars

----------------------------------------------------------------------------
(* Properties *)

Docs == 1..Len(documents)

\* the first document of the list with the content hash of document i
FirstWithHash(i) ==
    CHOOSE j \in 1..i :
        /\ documents[j].md5 = documents[i].md5
        /\ \A k \in 1..(j - 1) : documents[k].md5 # documents[i].md5

RECURSIVE SumSeq(_)
SumSeq(q) == IF q = <<>> THEN 0 ELSE Head(q) + SumSeq(Tail(q))

\* convert() has gone through the whole list
ConvertPassEnd == pc = "convert" /\ idx > Len(documents)

\* convert() has returned in this process
ConvertReturned ==
    /\ documents # <<>>
    /\ args.convert
    /\ pc \in {"main_summarize", "summarize", "main_organize", "classify", "exit"}
    /\ last # "killed"

\* organize() has returned in this process
OrganizeReturned ==
    /\ pc = "exit" /\ last = "returned"
    /\ args.organize
    /\ args.convert => args.confirm

\* organize() has rebuilt the schemes tree in this process
OrganizeBuilt == OrganizeReturned /\ brief_files # <<>>

Items == {classifications[i] : i \in 1..Len(classifications)}

Links == DOMAIN schemes

SchemeKey(dir) ==
    CASE dir = "by-topic" -> "topic" [] dir = "by-usage" -> "usage"
      [] dir = "by-client" -> "client"

SchemeDirs == {"by-topic", "by-usage", "by-client"}

\* C1: after scan(), of the documents of one content hash exactly the first of
\* the list is no duplicate, and every other one is a duplicate whose
\* duplicate_of is the original_path of that first one.
C1_OneCanonicalPerHash ==
    \A i \in Docs :
        LET f == FirstWithHash(i)
        IN  /\ documents[i].is_duplicate = (i # f)
            /\ i # f => documents[i].duplicate_of = documents[f].original_path
            /\ i = f => documents[i].duplicate_of = ""

C1_Witness ==
    /\ pc = "convert"
    /\ \E i \in Docs : documents[i].is_duplicate
    /\ \E i, j \in Docs : i # j /\ ~documents[i].is_duplicate
                          /\ ~documents[j].is_duplicate

\* C2: when a convert() pass has gone through the list, the converter has been
\* invoked once for every record that is no duplicate and never for a
\* duplicate, that is once per distinct content hash; every duplicate has the
\* status skipped_duplicate; in the scenario (b.pdf identical to a.pdf, and
\* c.pptx) the converter has been invoked twice.
C2_OncePerHash ==
    ConvertPassEnd =>
        /\ \A i \in Docs :
              /\ calls.conv[i] = IF documents[i].is_duplicate THEN 0 ELSE 1
              /\ documents[i].is_duplicate
                    => documents[i].conversion_status = "skipped_duplicate"
        /\ SumSeq(calls.conv) = Cardinality({documents[i].md5 : i \in Docs})
        /\ files = ScenarioFiles => SumSeq(calls.conv) = 2

C2_Witness ==
    /\ ConvertPassEnd
    /\ files = ScenarioFiles
    /\ Len(documents) = 3
    /\ SumSeq(calls.conv) = 2
    /\ \E i \in Docs : documents[i].conversion_status = "skipped_duplicate"

\* C3: a document whose conversion (or whose artifact's writing) fails is
\* marked failed with the error text, and the loop goes on: while convert()
\* runs, exactly the documents before the loop index have been processed, and
\* once it has returned no document is pending and the index holds the row of
\* every document.
C3_FailureDoesNotAbort ==
    /\ \A i \in Docs :
          documents[i].conversion_status = "failed"
              => documents[i].error_message # ""
    /\ pc = "convert" =>
          \A i \in Docs : (i < idx) <=> (documents[i].conversion_status # "pending")
    /\ ConvertReturned =>
          /\ \A i \in Docs : documents[i].conversion_status # "pending"
          /\ csv = <<CsvRows(documents)>>

C3_Witness ==
    /\ ConvertReturned
    /\ csv = <<CsvRows(documents)>>
    /\ \E i, j \in Docs :
          /\ i < j
          /\ documents[i].conversion_status = "failed"
          /\ documents[j].conversion_status = "success"

\* C4 (as claimed): in an invocation that follows an interrupted convert() on an
\* unchanged file set, the converter is not invoked for a file whose artifact
\* the interrupted run completed.
C4_ResumesWhereItStopped ==
    (pre.killed /\ pre.steady /\ pc = "convert") =>
        \A i \in Docs :
            documents[i].original_path \in pre.done => calls.conv[i] = 0

\* C4 (amended): convert() keeps no record of an earlier run: in an invocation
\* that follows an interrupted convert(), a pass that goes through the list has
\* invoked the converter once for every file that is no duplicate, the files
\* the interrupted run had converted included.
C4_ConvertsAllAgain ==
    (pre.killed /\ ConvertPassEnd) =>
        \A i \in Docs : ~documents[i].is_duplicate => calls.conv[i] = 1

C4_Witness ==
    /\ pre.killed /\ pre.steady /\ ConvertPassEnd
    /\ \E i, j \in Docs :
          /\ documents[i].original_path \in pre.done
          /\ calls.conv[i] = 1
          /\ documents[j].original_path \notin pre.done
          /\ calls.conv[j] = 1

\* C5 (as claimed): summarize() does not invoke the generator for an artifact
\* whose brief an earlier invocation wrote, and organize() does not invoke it
\* for a brief it has classified before.
C5_SkipsWhatIsDone ==
    [][/\ \A md \in DOMAIN calls'.sum :
             Count(calls'.sum, md) > Count(calls.sum, md)
                 => BriefName(md) \notin DOMAIN briefs
       /\ \A bf \in DOMAIN calls'.cls :
             Count(calls'.cls, bf) > Count(calls.cls, bf)
                 => ~(/\ <<bf, briefs[bf]>> \in DOMAIN memo.cls
                      /\ memo.cls[<<bf, briefs[bf]>>] = "K1")]_vars

\* C5 (amended): summarize() and organize() keep no record of an earlier
\* invocation: a summarize() that goes through its list has invoked the
\* generator once for every artifact of sufficient length, and an organize()
\* once for every brief, those with a brief or a classification from an earlier
\* invocation included.
C5_SummarizesAllAgain ==
    /\ (pc = "summarize" /\ idx > Len(md_files)) =>
          \A i \in 1..Len(md_files) :
              Count(calls.sum, md_files[i])
                  = IF converted[md_files[i]].chars < MIN_CONTENT THEN 0 ELSE 1
    /\ (pc = "classify" /\ idx > Len(brief_files)) =>
          \A i \in 1..Len(brief_files) : Count(calls.cls, brief_files[i]) = 1

C5_Witness ==
    /\ pc = "summarize" /\ idx > Len(md_files)
    /\ \E i \in 1..Len(md_files) :
          /\ BriefName(md_files[i]) \in pre.briefs
          /\ Count(calls.sum, md_files[i]) = 1

\* the latest conversion of the file at path p ended in success
ConversionSucceeded(p) ==
    /\ csv # <<>>
    /\ \E r \in 1..Len(csv[1]) :
          /\ csv[1][r].original_path = p
          /\ csv[1][r].conversion_status = "success"

\* C6: summarize() invokes the generator for an artifact only if the conversion
\* of its document ended in success, and organize() classifies a brief only if
\* the summarization of its artifact ended in success.
C6_PrerequisiteSucceeded ==
    /\ \A md \in DOMAIN calls.sum :
          calls.sum[md] > 0 => ConversionSucceeded(converted[md].src)
    /\ \A bf \in DOMAIN calls.cls :
          calls.cls[bf] > 0 =>
              \A r \in 1..Len(results) :
                  BriefName(results[r].file) = bf => results[r].status = "success"

\* the whole pipeline, as main() runs it with all the stage flags
FullRun ==
    /\ pc = "exit" /\ last = "returned"
    /\ args.convert /\ args.confirm /\ args.summarize /\ args.organize

\* C7: a second run of the whole pipeline on an unchanged file set, with
\* collaborators that answer as before, ends with the conversion statuses, the
\* summarization statuses and the references of the first run.
C7_SecondRunChangesNothing ==
    (/\ FullRun
     /\ pre.full = (IF args.rename THEN "rename" ELSE "plain")
     /\ pre.steady) =>
        /\ csv = pre.csv
        /\ results = pre.results
        /\ schemes = pre.schemes

C7_Witness ==
    /\ FullRun
    /\ pre.full = (IF args.rename THEN "rename" ELSE "plain")
    /\ pre.steady
    /\ Links # {}
    /\ csv # <<>>
    /\ \E r \in 1..Len(csv[1]) : csv[1][r].conversion_status = "failed"
    /\ \E r \in 1..Len(csv[1]) : csv[1][r].conversion_status = "success"

\* paths the tree of one scheme refers to
Targets(dir) == {schemes[d] : d \in {l \in Links : l[1] = dir}}

\* the document of the list that a duplicate is a duplicate of
CanonicalOf(i) == documents[FirstWithHash(i)]

\* C8 (as claimed): after organize(), a duplicate whose canonical file has a
\* reference in a category of a scheme has a reference to its own path in that
\* category; in the scenario the by-topic tree refers to all three files.
C8_DuplicatesAreReferenced ==
    OrganizeBuilt =>
        /\ \A i \in Docs : \A l \in Links :
              (/\ documents[i].is_duplicate
               /\ schemes[l] = CanonicalOf(i).original_path)
                  => \E l2 \in Links :
                        /\ l2[1] = l[1] /\ l2[2] = l[2]
                        /\ schemes[l2] = documents[i].original_path
        /\ (files = ScenarioFiles /\ Targets("by-topic") # {})
              => Targets("by-topic") = {"A/a.pdf", "A/b.pdf", "A/c.pptx"}

\* the last document of the list with the key of document i
LastWithKey(i) ==
    \A j \in Docs : DocKey(documents[j]) = DocKey(documents[i]) => j <= i

\* C8 (amended): organize() refers to one file per brief, the last document of
\* the list whose file name is the key of the brief: a duplicate is referred to
\* only if a brief has its file name and no later document has, and then in
\* place of the other documents of that name; in the scenario the trees refer
\* to a.pdf and c.pptx at most, never to b.pdf.
C8_OneFilePerBrief ==
    OrganizeBuilt =>
        /\ \A l \in Links : \E i \in Docs :
              /\ documents[i].original_path = schemes[l]
              /\ LastWithKey(i)
              /\ \E b \in 1..Len(brief_files) :
                    BriefKey(brief_files[b]) = DocKey(documents[i])
        /\ files = ScenarioFiles =>
              \A dir \in SchemeDirs : Targets(dir) \subseteq {"A/a.pdf", "A/c.pptx"}

C8_Witness ==
    /\ OrganizeBuilt
    /\ files = ScenarioFiles
    /\ Targets("by-topic") = {"A/a.pdf", "A/c.pptx"}
    /\ \E i \in Docs : /\ documents[i].original_path = "A/b.pdf"
                       /\ documents[i].is_duplicate

\* C9 (as claimed): after organize(), for each scheme and each classified entry
\* with a known original path, the tree of the scheme holds exactly one
\* reference to that path, and it is in the directory of the entry's category.
C9_ExactlyOneReference ==
    OrganizeBuilt =>
        \A dir \in SchemeDirs : \A it \in Items :
            it.original_path # "" =>
                \E l \in Links :
                    /\ l[1] = dir /\ l[2] = it[SchemeKey(dir)]
                    /\ schemes[l] = it.original_path
                    /\ \A l2 \in Links :
                          (l2[1] = dir /\ schemes[l2] = it.original_path) => l2 = l

\* the name organize() gives the reference of an entry
RefName(it) ==
    IF args.rename /\ it.suggested_name # ""
    THEN <<it.suggested_name, PathSuffix(NameOf(it.original_path))>>
    ELSE NameOf(it.original_path)

\* the first entry of the list that claims the place l of the tree
FirstClaim(l) ==
    LET claims == {i \in 1..Len(classifications) :
                      /\ classifications[i].original_path # ""
                      /\ classifications[i][SchemeKey(l[1])] = l[2]
                      /\ RefName(classifications[i]) = l[3]}
    IN  IF claims = {} THEN 0
        ELSE CHOOSE i \in claims : \A j \in claims : i <= j

\* C9 (amended): after organize(), for each scheme and each classified entry
\* with a known original path, the directory of the entry's category holds a
\* reference under the entry's reference name; it points to the original path
\* of the first entry that claimed that name there (a later entry of the same
\* name gets no reference of its own), and the tree holds nothing else.
C9_OneReferencePerName ==
    OrganizeBuilt =>
        /\ \A dir \in SchemeDirs : \A it \in Items :
              it.original_path # ""
                  => <<dir, it[SchemeKey(dir)], RefName(it)>> \in Links
        /\ \A l \in Links :
              /\ FirstClaim(l) # 0
              /\ schemes[l] = classifications[FirstClaim(l)].original_path

C9_Witness ==
    /\ OrganizeBuilt
    /\ args.rename
    /\ \E i, j \in 1..Len(classifications) :
          /\ i < j
          /\ classifications[i].original_path # ""
          /\ classifications[j].original_path # ""
          /\ classifications[i].original_path # classifications[j].original_path
          /\ classifications[i].topic = classifications[j].topic
          /\ RefName(classifications[i]) = RefName(classifications[j])
          /\ classifications[j].original_path \notin Targets("by-topic")

\* C10: after organize(), whatever earlier runs left, every reference of the
\* schemes tree is to a file that exists and that this run classified into the
\* category the reference is in.
C10_NoStaleReference ==
    OrganizeReturned =>
        \A l \in Links :
            /\ files[schemes[l]] # 0
            /\ \E it \in Items :
                  /\ it.original_path = schemes[l]
                  /\ it[SchemeKey(l[1])] = l[2]

C10_Witness ==
    /\ OrganizeBuilt
    /\ Links # {}
    /\ \E l \in DOMAIN pre.schemes : l \notin Links

\* the places of the tree that the entries with a known path claim
ClaimedPlaces ==
    {<<dir, it[SchemeKey(dir)], RefName(it)>> :
        dir \in SchemeDirs, it \in {i \in Items : i.original_path # ""}}

\* the entries with a known path, as positions of the list
Placed == {i \in 1..Len(classifications) : classifications[i].original_path # ""}

\* C11: when organize() has returned, an entry whose reference name was taken in
\* its category directory by an earlier entry has created nothing and replaced
\* nothing (the reference there still points to the earlier entry's path), the
\* entries after it have their references all the same, and the link count
\* of the result is the number of references created, not of attempts.
C11_CollisionSkips ==
    OrganizeBuilt =>
        /\ \A j \in Placed : \A dir \in SchemeDirs :
              LET l == <<dir, classifications[j][SchemeKey(dir)],
                         RefName(classifications[j])>>
              IN  /\ l \in Links
                  /\ \A i \in Placed :
                        (/\ i < j
                         /\ classifications[i][SchemeKey(dir)] = l[2]
                         /\ RefName(classifications[i]) = l[3]
                         /\ \A k \in Placed :
                               (k < i /\ classifications[k][SchemeKey(dir)] = l[2])
                                   => RefName(classifications[k]) # l[3])
                            => schemes[l] = classifications[i].original_path
        /\ report.link_count = Cardinality(Links)
        /\ report.link_count = Cardinality(ClaimedPlaces)

C11_Witness ==
    /\ OrganizeBuilt
    /\ report.link_count = 3
    /\ Cardinality(Placed) = 2
    /\ \E i, j \in Placed :
          /\ i < j
          /\ RefName(classifications[i]) = RefName(classifications[j])
          /\ classifications[i].original_path # classifications[j].original_path
          /\ \A dir \in SchemeDirs :
                schemes[<<dir, classifications[j][SchemeKey(dir)],
                          RefName(classifications[j])>>]
                    = classifications[i].original_path

\* C12: whatever the generator answers, organize() records an entry for every
\* brief, no exception leaves it, and every entry has a category that is a
\* string in every dimension, under which its reference is filed.
C12_AlwaysACategory ==
    /\ pc = "classify" => Len(classifications) = idx - 1
    /\ (pc = "exit" /\ classifications # <<>>) =>
          /\ last = "returned"
          /\ Len(classifications) = Len(brief_files)
          /\ \A it \in Items : \A dir \in SchemeDirs :
                /\ it[SchemeKey(dir)] # None
                /\ it.original_path # "" =>
                      \E l \in Links : l[1] = dir /\ l[2] = it[SchemeKey(dir)]

\* The response c is a JSON object in a fenced block: some text without fence,
\* the fence, one of the tags or none, the object, the closing fence, anything.
FencedObject(c, tags) ==
    \E i, j \in 1..Len(c) :
        /\ i < j
        /\ c[i] = Fence /\ c[j] = Fence
        /\ \A k \in 1..(j - 1) : k # i => c[k] # Fence
        /\ \A k \in 1..(i - 1) : c[k] \in {"t", "w", "json"}
        /\ LET body == SubSeq(c, i + 1, j - 1)
           IN  \/ Strip(body) = <<"O">>
               \/ /\ body # <<>> /\ Head(body) \in tags
                  /\ Strip(Tail(body)) = <<"O">>

ClassifyReturned == inp.fn = "ollama_classify" /\ out.returned

\* C13 (as claimed): a JSON object in a fenced block, with any language tag or
\* none and with text around the block, is parsed to what the object alone is
\* parsed to.
C13_FencedParsesAlike ==
    (ClassifyReturned /\ FencedObject(inp.content, {"json", "t"}))
        => out.value = ParseResponse(<<"O">>)

\* C13 (amended): a JSON object in a fenced block whose opening fence is followed
\* at once by the tag json or by no tag, with text that holds no fence before the
\* block and any text after it, is parsed to what the object alone is parsed to.
C13_JsonFenceParsesAlike ==
    (ClassifyReturned /\ FencedObject(inp.content, {"json"}))
        => out.value = ParseResponse(<<"O">>)

C13_Witness ==
    /\ ClassifyReturned
    /\ inp.content = <<"t", Fence, "json", "w", "O", Fence>>
    /\ out.value = "K1"

SummarizeReturned == inp.fn = "ollama_summarize" /\ out.returned

\* C14: for a content longer than MAX_CONTENT_CHARS the text put in the prompt is
\* the first MAX_CONTENT_CHARS characters and one note that gives the original
\* length; for a content of at most MAX_CONTENT_CHARS it is the content, and no
\* note.
C14_TruncatedToBudget ==
    SummarizeReturned =>
        LET n == inp.content
            v == out.value
        IN  /\ n > MAX_CONTENT_CHARS =>
                  /\ v.chars = MAX_CONTENT_CHARS
                  /\ Len(v.notes) = 1
                  /\ v.notes[1].original = n
            /\ n <= MAX_CONTENT_CHARS => (v.chars = n /\ v.notes = <<>>)

C14_Witness ==
    /\ SummarizeReturned
    /\ inp.content = MAX_CONTENT_CHARS + 1
    /\ out.value.chars = MAX_CONTENT_CHARS
    /\ Len(out.value.notes) = 1

\* main() has left through sys.exit(1) after check_ollama
NoGeneratorExit == pc = "exit" /\ last = "no_generator"

C17_OriginalsUntouched ==
    [][(pc # "idle" \/ pc' # "idle") =>
          /\ files' = files
          /\ \A l \in DOMAIN schemes' : schemes'[l] \in Paths]_vars

C17_Witness ==
    /\ OrganizeBuilt
    /\ pre.schemes # EmptyMap
    /\ Links # {}
    /\ \A l \in Links : files[schemes[l]] # 0
    /\ \E l \in DOMAIN pre.schemes : l \notin Links

\* C18: a document for which the generator call fails in summarize() is
\* recorded as failed with the error text and gets no brief written; the loop
\* goes on: every artifact before the loop index has its result, and when
\* summarize() has returned every artifact has one.
C18_SummaryFailureDoesNotAbort ==
    /\ pc = "summarize" => Len(results) = idx - 1
    /\ (md_files # <<>> /\ pc # "summarize") => Len(results) = Len(md_files)
    /\ \A r \in 1..Len(results) :
          /\ results[r].file = md_files[r]
          /\ results[r].status = "failed" =>
                /\ results[r].error # ""
                /\ BriefName(results[r].file) \notin calls.wrote
          /\ results[r].status = "success" =>
                BriefName(results[r].file) \in calls.wrote

C18_Witness ==
    /\ pc = "main_organize"
    /\ Len(results) = 2
    /\ results[1].status = "failed"
    /\ results[2].status = "success"
    /\ BriefName(results[1].file) \notin DOMAIN briefs
    /\ BriefName(results[2].file) \in DOMAIN briefs

\* The directory a path of the tree lies in ("" above the roots)
ParentOf(p) ==
    CASE p \in {"A/sub/a.pdf"} -> "A/sub"
      [] p \in {"A/.hidden/h.pdf"} -> "A/.hidden"
      [] p \in {"A/build/d.pdf"} -> "A/build"
      [] p \in {"A", "M"} -> ""
      [] OTHER -> "A"

\* The directories a path lies under
Above(p) ==
    ({ParentOf(p)} \cup
        (IF ParentOf(p) = "" THEN {} ELSE {ParentOf(ParentOf(p))})) \ {""}

\* The path lies at or under the root
Under(root, p) == root = p \/ root \in Above(p)

\* The directories on the way from a root to a path under it, the root included
DirsBetween(root, p) == {d \in Above(p) : d = root \/ root \in Above(d)}

ScanReturned == inp.fn = "scan" /\ out.returned

\* The paths of the records scan() returned
Records == {out.value[i].original_path : i \in 1..Len(out.value)}

IsAllowed(p) == Lower(PathSuffix(NameOf(p))) \in SUPPORTED_EXTENSIONS

\* C19: scan() returns normally whatever roots are missing and whatever files
\* or subtrees cannot be read, and returns a record for every readable
\* supported file it walks to through readable directories that it does not
\* filter out, the siblings after an unreadable entry included.
C19_ScanSkipsOnlyTheUnreadable ==
    ScanReturned =>
        /\ ~out.raised
        /\ \A p \in Paths : \A root \in {inp.paths[i] : i \in 1..Len(inp.paths)} :
              ( /\ StateOf(p, inp.fs) = 1
                /\ IsAllowed(p)
                /\ Under(root, p)
                /\ \A d \in DirsBetween(root, p) :
                      /\ StateOf(d, inp.fs) = 1
                      /\ NameOf(d)[1] \notin EXCLUDED_DIRS
                      /\ ~StartsWithDot(NameOf(d)[1]) )
              => p \in Records

\* Every file and directory of the scanned tree can be read
AllReadable == \A p \in DOMAIN inp.fs : inp.fs[p] \in {0, 1}

\* C20: on a tree that can be read, every record of scan() has an extension of
\* the allow-list and no directory of the deny-list on the way from its root
\* (the root included) to the file; and every file of the tree with an
\* allow-listed extension and no deny-listed directory on that way is returned.
C20_AllowedAndNotDenied ==
    (ScanReturned /\ AllReadable /\ ~out.raised) =>
        LET roots == {inp.paths[i] : i \in 1..Len(inp.paths)}
            Clear(root, p) == \A d \in DirsBetween(root, p) :
                                 NameOf(d)[1] \notin EXCLUDED_DIRS
        IN  /\ \A p \in Records :
                  /\ IsAllowed(p)
                  /\ \A root \in roots : Under(root, p) => Clear(root, p)
            /\ \A p \in Paths : \A root \in roots :
                  ( /\ StateOf(p, inp.fs) = 1
                    /\ IsAllowed(p)
                    /\ Under(root, p)
                    /\ Clear(root, p) )
                  => p \in Records

\* The rows of the index file
Rows == IF csv = <<>> THEN <<>> ELSE csv[1]

Hashes == {documents[i].md5 : i \in Docs}

\* C21 (as claimed): the index written at the end of a conversion pass has one
\* row per distinct content hash, and no row of a duplicate.
C21_OneRowPerCanonical ==
    ConvertReturned =>
        /\ Len(Rows) = Cardinality(Hashes)
        /\ \A r \in 1..Len(Rows) : ~Rows[r].is_duplicate

\* C21 (amended): the index written at the end of a conversion pass has one
\* row per scanned document, in the order of the list, the duplicates included:
\* the row of a duplicate has is_duplicate set, the status skipped_duplicate, no
\* artifact path and in duplicate_of the path of the row of the same hash that
\* is no duplicate; the rows that are no duplicates are one per distinct
\* content hash.
C21_OneRowPerDocument ==
    ConvertReturned =>
        /\ Len(Rows) = Len(documents)
        /\ \A r \in 1..Len(Rows) :
              /\ Rows[r].original_path = documents[r].original_path
              /\ Rows[r].md5 = documents[r].md5
              /\ Rows[r].is_duplicate =>
                    /\ Rows[r].conversion_status = "skipped_duplicate"
                    /\ Rows[r].markdown_path = <<>>
                    /\ \E q \in 1..Len(Rows) :
                          /\ ~Rows[q].is_duplicate
                          /\ Rows[q].md5 = Rows[r].md5
                          /\ Rows[q].original_path = Rows[r].duplicate_of
        /\ Cardinality({r \in 1..Len(Rows) : ~Rows[r].is_duplicate})
              = Cardinality(Hashes)

C21_Witness ==
    /\ ConvertReturned
    /\ Len(Rows) = 3
    /\ Cardinality(Hashes) = 2
    /\ \E r \in 1..Len(Rows) : Rows[r].is_duplicate

\* The documents that are no duplicates
Canonical == {i \in Docs : ~documents[i].is_duplicate}

\* C22: when convert() has returned, two documents that are no duplicates (so
\* of different content hashes) and were converted with success have different
\* artifact paths, whatever their file names and directories, and the artifact
\* at the path of each holds the text of that document; and two such documents
\* have different brief paths.
C22_OneArtifactPerCanonical ==
    ConvertReturned =>
        \A i \in Canonical :
            documents[i].conversion_status = "success" =>
                /\ documents[i].markdown_path \in DOMAIN converted
                /\ converted[documents[i].markdown_path].src
                      = documents[i].original_path
                /\ converted[documents[i].markdown_path].text = documents[i].md5
                /\ \A j \in Canonical \ {i} :
                      documents[j].conversion_status = "success" =>
                          /\ documents[j].markdown_path # documents[i].markdown_path
                          /\ BriefName(documents[j].markdown_path)
                                # BriefName(documents[i].markdown_path)

\* summarize() has gone through its loop and returned in this process
SummarizeLoopReturned == md_files # <<>> /\ pc # "summarize"

WithStatus(st) == {i \in Docs : documents[i].conversion_status = st}

ResultsWith(st) == {r \in 1..Len(results) : results[r].status = st}

\* C23 (as claimed): the counts a stage reports at its end add up to the
\* number of documents it iterated over.
C23_ReportedCountsAddUp ==
    /\ ConvertReturned =>
          report.converted_count + report.failed_count = report.total_files
    /\ SummarizeLoopReturned =>
          report.success_count + report.fail_count = Len(md_files)

\* C23 (amended): convert() and summarize() report the counts of success and
\* of failure only, and organize() the number of references it created; no
\* stage reports a count of skipped documents.  The two reported counts are
\* the numbers of documents with those outcomes, and together with the number
\* of skipped documents (duplicates in convert(), artifacts with too little
\* content in summarize()) they add up to the number of documents iterated over.
C23_SuccessAndFailedCounted ==
    /\ ConvertReturned =>
          /\ report.total_files = Len(documents)
          /\ report.converted_count = Cardinality(WithStatus("success"))
          /\ report.failed_count = Cardinality(WithStatus("failed"))
          /\ report.converted_count + report.failed_count
                + Cardinality(WithStatus("skipped_duplicate")) = report.total_files
    /\ SummarizeLoopReturned =>
          /\ report.success_count = Cardinality(ResultsWith("success"))
          /\ report.fail_count = Cardinality(ResultsWith("failed"))
          /\ report.success_count + report.fail_count
                + Cardinality(ResultsWith("skipped")) = Len(md_files)
    /\ OrganizeBuilt => report.link_count = Cardinality(Links)

C23_Witness ==
    /\ pc = "main_organize"
    /\ ConvertReturned
    /\ SummarizeLoopReturned
    /\ WithStatus("skipped_duplicate") # {}
    /\ ResultsWith("skipped") # {}
    /\ report.converted_count + report.failed_count < report.total_files
    /\ report.success_count + report.fail_count < Len(md_files)

\* C24: in summarize(), an artifact that was written whole for a document
\* whose converter text is shorter than the threshold (the empty text in
\* particular) is recorded as skipped, the generator is not invoked for it and
\* no brief is written for it.
C24_TooLittleTextIsSkipped ==
    \A r \in 1..Len(results) :
        LET md == results[r].file
        IN  (converted[md].whole /\ TextLen(converted[md].text) < MIN_CONTENT) =>
                /\ results[r].status = "skipped"
                /\ md \notin DOMAIN calls.sum
                /\ BriefName(md) \notin calls.wrote

SelectReturned == inp.fn = "message" /\ out.returned

\* C25: in both functions the result text is the stripped primary content when
\* that is not empty; the stripped secondary (thinking) content when the
\* primary is missing or empty after stripping and the secondary is there and
\* not empty; the empty text when the primary is missing or empty after
\* stripping and the secondary is missing, null or empty.
C25_ChannelSelection ==
    (SelectReturned /\ inp.msg.content.kind # "null") =>
        LET c == inp.msg.content
            t == inp.msg.thinking
            primary == IF c.kind = "str" THEN Strip(c.text) ELSE <<>>
            secondary == t.kind = "str" /\ Len(t.text) > 0
        IN  /\ ~out.raised
            /\ primary # <<>> => out.value = primary
            /\ (primary = <<>> /\ secondary) => out.value = Strip(t.text)
            /\ (primary = <<>> /\ ~secondary) => out.value = <<>>

C25_Witness ==
    /\ SelectReturned
    /\ inp.of = "ollama_classify"
    /\ inp.msg.content = [kind |-> "str", text |-> <<"w">>]
    /\ inp.msg.thinking = [kind |-> "str", text |-> <<"x", "w">>]
    /\ out.value = <<"x">>

\* C26: every reference organize() created is the reference of a
\* classification entry with the path it points to, in the directory of that
\* entry's category, and its name is the entry's suggested name followed by the
\* extension of the original file when rename is requested and the suggested
\* name is not empty, and the file name of the original in every other case.
C26_ReferenceName ==
    OrganizeBuilt =>
        \A l \in Links : \E it \in Items :
            /\ it.original_path = schemes[l]
            /\ it[SchemeKey(l[1])] = l[2]
            /\ (args.rename /\ it.suggested_name # "")
                  => l[3] = <<it.suggested_name,
                              PathSuffix(NameOf(schemes[l]))>>
            /\ ~(args.rename /\ it.suggested_name # "")
                  => l[3] = NameOf(schemes[l])

C26_Witness ==
    /\ OrganizeBuilt
    /\ args.rename
    /\ \E l \in Links : l[3] = <<"n1", ".pdf">> /\ schemes[l] = "A/a.pdf"
    /\ \E l \in Links : l[3] = <<"c", ".pptx">> /\ schemes[l] = "A/c.pptx"

\* the step of convert() that has just marked document idx a success
ConvertedNow ==
    /\ pc = "convert" /\ idx <= Len(documents)
    /\ idx' = idx + 1
    /\ documents'[idx].conversion_status = "success"

\* C27 (as claimed): the artifact of a document marked success holds the text
\* the converter returned and nothing more.
C27_ArtifactIsTheText ==
    \A i \in Docs :
        documents[i].conversion_status = "success" =>
            /\ documents[i].markdown_path \in DOMAIN converted
            /\ converted[documents[i].markdown_path].chars
                  = TextLen(converted[documents[i].markdown_path].text)

\* C27 (amended): when convert() marks a document success it has written, at
\* the artifact path it sets for the document, the header (title, original
\* path, type and size, time, rule) followed by the whole text the converter
\* returned for that document; and a document is marked success only with its
\* artifact path set.
C27_HeaderThenText ==
    [][ /\ ConvertedNow =>
            LET d == documents'[idx]
            IN  /\ d.markdown_path = MdName(documents[idx])
                /\ d.markdown_path \in DOMAIN converted'
                /\ converted'[d.markdown_path].src = d.original_path
                /\ converted'[d.markdown_path].text = d.md5
                /\ converted'[d.markdown_path].whole
                /\ converted'[d.markdown_path].chars = HeaderLen + TextLen(d.md5)
        /\ \A i \in 1..Len(documents') :
              documents'[i].conversion_status = "success"
                  => documents'[i].markdown_path # <<>> ]_vars

C27_Witness ==
    /\ pc = "convert"
    /\ idx = 2
    /\ documents[1].conversion_status = "success"
    /\ documents[1].markdown_path = <<"a", ".pdf", ".md">>
    /\ converted[documents[1].markdown_path].text = documents[1].md5
    /\ converted[documents[1].markdown_path].chars
          = HeaderLen + TextLen(documents[1].md5)
    /\ TextLen(documents[1].md5) > 0

\* What scan() computes of a document
Scanned(d) ==
    [original_path |-> d.original_path, file_type |-> d.file_type,
     file_size |-> d.file_size, md5 |-> d.md5,
     is_duplicate |-> d.is_duplicate, duplicate_of |-> d.duplicate_of]

ScanOf(docs) == [i \in 1..Len(docs) |-> Scanned(docs[i])]

\* the stages keep the list as scan() of this process returned it
ScanKept == documents # <<>> => ScanOf(documents) = ScanOf(Scan(args.paths, files))

\* C28: in a process, the list of documents keeps the documents, their order
\* and what scan() computed of each (path, extension, size, content hash,
\* is_duplicate, duplicate_of) through convert(), summarize() and organize(),
\* and scan() is run at most once.
C28_ScannedOnceAndKept ==
    pc # "idle" => (ScanKept /\ calls.scan <= 1)

NamingReturned == inp.fn = "organize" /\ out.returned

\* C29: the key organize() derives from the brief of a document that was
\* converted and summarized is the key of that document, and the entry of the
\* brief has that document's own original path (never the empty path), whatever
\* the file name: with the brief marker in it, with an upper-case suffix, or
\* shared with a file of another directory.
C29_KeyRoundTrip ==
    NamingReturned =>
        /\ out.value.item.filename = DocKey(inp.docs[inp.i])
        /\ out.value.item.original_path = inp.docs[inp.i].original_path

\* C30: when convert() has returned on a list that is not empty, every
\* document has one of the statuses success, failed and skipped_duplicate (none
\* is pending), a failed document has no artifact path, whatever was written
\* of its artifact, and the two counts of the report and the number of
\* duplicates add up to total_files.
C30_TerminalStatus ==
    ConvertReturned =>
        /\ \A i \in Docs :
              /\ documents[i].conversion_status
                    \in {"success", "failed", "skipped_duplicate"}
              /\ documents[i].conversion_status = "failed"
                    => documents[i].markdown_path = <<>>
              /\ documents[i].conversion_status = "skipped_duplicate"
                    <=> documents[i].is_duplicate
        /\ report.converted_count + report.failed_count
              + Cardinality({i \in Docs : documents[i].is_duplicate})
              = report.total_files

C30_Witness ==
    /\ ConvertReturned
    /\ pc = "main_summarize"
    /\ \E i \in Docs : documents[i].conversion_status = "success"
    /\ \E i \in Docs : documents[i].conversion_status = "skipped_duplicate"
    /\ \E i \in Docs :
          /\ documents[i].conversion_status = "failed"
          /\ MdName(documents[i]) \in DOMAIN converted
          /\ converted[MdName(documents[i])].src = documents[i].original_path

====
